---- MODULE Spec2Model ----
(***************************************************************************)
(* Media ingestion pipeline of the video-editor backend                    *)
(* (backend/storage.py, backend/routes/media.py,                           *)
(* backend/routes/transcription.py).                                       *)
(*                                                                         *)
(* Strings are sequences of one-character strings, a path is a record      *)
(* [abs, parts] of its components, a Python dict is a function whose       *)
(* DOMAIN is its key set ({} is <<>>), None is <<>>.                       *)
(***************************************************************************)
EXTENDS Integers, Sequences, FiniteSets, TLC

(* ------------------------------------------------------------------ *)
(* Bounds of the model                                                 *)
(* ------------------------------------------------------------------ *)

\* number of upload requests in flight
NumCalls == 2

\* byte length of a non-empty upload that is under the ceiling
MaxBytes == 2

\* largest number a probe field holds when the extractors are run on their own
MaxField == 1

(* ------------------------------------------------------------------ *)
(* Python values                                                       *)
(* ------------------------------------------------------------------ *)

None == <<>>

EmptyDict == <<>>

Return(v) == [raised |-> FALSE, exc |-> None, val |-> v]

Raise(e) == [raised |-> TRUE, exc |-> e, val |-> None]

UpperCase == <<"A","B","C","D","E","F","G","H","I","J","K","L","M",
               "N","O","P","Q","R","S","T","U","V","W","X","Y","Z">>

LowerCase == <<"a","b","c","d","e","f","g","h","i","j","k","l","m",
               "n","o","p","q","r","s","t","u","v","w","x","y","z">>

\* str.lower(), one character
LowerChar(ch) ==
    IF \E i \in 1..26 : UpperCase[i] = ch
    THEN LowerCase[CHOOSE i \in 1..26 : UpperCase[i] = ch]
    ELSE ch

\* str.lower()
Lower(s) == [i \in 1..Len(s) |-> LowerChar(s[i])]

\* str.rfind(ch) + 1: the last position of ch in s, 0 when there is none
LastIndex(s, ch) ==
    IF \E i \in 1..Len(s) : s[i] = ch
    THEN CHOOSE i \in 1..Len(s) : s[i] = ch /\ \A j \in (i+1)..Len(s) : s[j] # ch
    ELSE 0

\* os.path.splitext(p)[1] (posixpath): the suffix from the last dot of the
\* last path component, unless that component has only dots before it
splitext_ext(p) ==
    LET sepIndex == LastIndex(p, "/")
        dotIndex == LastIndex(p, ".")
    IN  IF dotIndex > sepIndex
           /\ \E i \in (sepIndex + 1)..(dotIndex - 1) : p[i] # "."
        THEN SubSeq(p, dotIndex, Len(p))
        ELSE <<>>

(* ------------------------------------------------------------------ *)
(* storage.py: configuration, classification, validation               *)
(* ------------------------------------------------------------------ *)

MAX_FILE_SIZE == 100 * 1024 * 1024

SUPPORTED_VIDEO_TYPES ==
    { <<".","m","p","4">>, <<".","m","o","v">>, <<".","a","v","i">>,
      <<".","m","k","v">>, <<".","w","e","b","m">> }

SUPPORTED_AUDIO_TYPES ==
    { <<".","m","p","3">>, <<".","w","a","v">>, <<".","a","a","c">>,
      <<".","m","4","a">>, <<".","o","g","g">> }

SUPPORTED_IMAGE_TYPES ==
    { <<".","j","p","g">>, <<".","j","p","e","g">>, <<".","p","n","g">>,
      <<".","g","i","f">>, <<".","w","e","b","p">> }

\* HTTPException(status_code, detail); detail is the message and the value
\* interpolated into it
HTTPException(code, msg, arg) ==
    [type |-> "HTTPException", status_code |-> code, msg |-> msg, arg |-> arg]

\* an OSError raised by open() or by a write
OSError(msg) ==
    [type |-> "OSError", status_code |-> 0, msg |-> msg, arg |-> <<>>]

\* the SQLAlchemy error of a failed commit
SQLAlchemyError(msg) ==
    [type |-> "SQLAlchemyError", status_code |-> 0, msg |-> msg, arg |-> <<>>]

\* get_file_type without the .lower() of the extension
get_file_type_case_sensitive(filename) ==
    LET ext == splitext_ext(filename)
    IN  IF ext \in SUPPORTED_VIDEO_TYPES THEN Return("video")
        ELSE IF ext \in SUPPORTED_AUDIO_TYPES THEN Return("audio")
        ELSE IF ext \in SUPPORTED_IMAGE_TYPES THEN Return("image")
        ELSE Raise(HTTPException(400, "Unsupported file type: ", ext))

get_file_type(filename) ==
    LET ext == Lower(splitext_ext(filename))
    IN  IF ext \in SUPPORTED_VIDEO_TYPES THEN Return("video")
        ELSE IF ext \in SUPPORTED_AUDIO_TYPES THEN Return("audio")
        ELSE IF ext \in SUPPORTED_IMAGE_TYPES THEN Return("image")
        ELSE Raise(HTTPException(400, "Unsupported file type: ", ext))

\* validate_file without its size check
validate_file_type_only(file) ==
    LET t == get_file_type(file.filename)
    IN  IF t.raised THEN t ELSE Return(None)

\* validate_file with the type check ahead of the size check
validate_file_type_first(file) ==
    LET t == get_file_type(file.filename)
    IN  IF t.raised THEN t
        ELSE IF file.size > MAX_FILE_SIZE
        THEN Raise(HTTPException(400, "File too large. Maximum size is ",
                                 <<ToString(MAX_FILE_SIZE \div (1024 * 1024)), "MB">>))
        ELSE Return(None)

validate_file(file) ==
    IF file.size > MAX_FILE_SIZE
    THEN Raise(HTTPException(400, "File too large. Maximum size is ",
                             <<ToString(MAX_FILE_SIZE \div (1024 * 1024)), "MB">>))
    ELSE LET t == get_file_type(file.filename)
         IN  IF t.raised THEN t ELSE Return(None)

(* ------------------------------------------------------------------ *)
(* Paths                                                               *)
(* ------------------------------------------------------------------ *)

\* the working directory of the server process
CWD == << <<"app">> >>

RelPath(parts) == [abs |-> FALSE, parts |-> parts]

AbsPath(parts) == [abs |-> TRUE, parts |-> parts]

\* os.path.join(a, b)
PathJoin(a, b) ==
    IF b.abs THEN b ELSE [abs |-> a.abs, parts |-> a.parts \o b.parts]

\* os.path.basename(p)
basename(p) == p.parts[Len(p.parts)]

\* the file the operating system opens for path p: relative paths start at
\* the working directory and "." components are dropped
Resolve(p) ==
    LET full == IF p.abs THEN p.parts ELSE CWD \o p.parts
    IN  SelectSeq(full, LAMBDA part : part # <<".">>)

\* os.getenv("UPLOAD_DIR", "./uploads"), os.getenv("THUMBNAIL_DIR", "./thumbnails"):
\* the default, and a deployment that sets both to absolute directories
Configurations ==
    { [UPLOAD_DIR |-> RelPath(<< <<".">>, <<"uploads">> >>),
       THUMBNAIL_DIR |-> RelPath(<< <<".">>, <<"thumbnails">> >>)],
      [UPLOAD_DIR |-> AbsPath(<< <<"data">>, <<"uploads">> >>),
       THUMBNAIL_DIR |-> AbsPath(<< <<"data">>, <<"thumbnails">> >>)] }

\* str(uuid.uuid4()) for the token t
uuid_str(t) == <<ToString(t)>>

\* the upload stored under a fixed name instead of a fresh token
original_path_fixed_name(root, t, file_ext) ==
    PathJoin(root, RelPath(<< <<"upload">> \o file_ext >>))

\* f"{uuid.uuid4()}{file_ext}" joined under the upload root
original_path(root, t, file_ext) ==
    PathJoin(root, RelPath(<< uuid_str(t) \o file_ext >>))

\* f"{uuid.uuid4()}.jpg" joined under the thumbnail root
thumbnail_file_path(root, t) ==
    PathJoin(root, RelPath(<< uuid_str(t) \o <<".","j","p","g">> >>))

\* transcription.py: the path the transcription route opens for a file_url
transcription_path(file_url) ==
    IF file_url.abs THEN file_url
    ELSE PathJoin(RelPath(<< <<"uploads">> >>), file_url)

(* ------------------------------------------------------------------ *)
(* What a stored file decodes to                                       *)
(* ------------------------------------------------------------------ *)

\* a field of the probe's JSON: missing, a value that parses to the number
\* v, or a value that does not parse as a number ("N/A", null)
Absent == [k |-> "absent", v |-> 0]

Num(n) == [k |-> "num", v |-> n]

Bad == [k |-> "bad", v |-> 0]

\* the r_frame_rate string: missing, "<n>/<d>", "<n>+<d>" or a bare name
NoRate == [k |-> "absent", n |-> 0, d |-> 0]

Ratio(n, d) == [k |-> "ratio", n |-> n, d |-> d]

SumExpr(n, d) == [k |-> "sum", n |-> n, d |-> d]

NameExpr == [k |-> "name", n |-> 0, d |-> 0]

VideoStream(w, h, rate, codec) ==
    [codec_type |-> "video", width |-> w, height |-> h, r_frame_rate |-> rate,
     codec_name |-> codec, sample_rate |-> Absent, channels |-> Absent]

AudioStream(rate, ch, codec) ==
    [codec_type |-> "audio", width |-> Absent, height |-> Absent,
     r_frame_rate |-> NoRate, codec_name |-> codec, sample_rate |-> rate,
     channels |-> ch]

\* the dict ffmpeg.probe returns
Probe(streams, duration) == [streams |-> streams, format |-> [duration |-> duration]]

\* the errors of the decoders
FfmpegError == [type |-> "ffmpeg.Error", status_code |-> 0, msg |-> "ffprobe error", arg |-> <<>>]

ValueError == [type |-> "ValueError", status_code |-> 0, msg |-> "invalid literal", arg |-> <<>>]

NameError == [type |-> "NameError", status_code |-> 0, msg |-> "name is not defined", arg |-> <<>>]

ZeroDivisionError == [type |-> "ZeroDivisionError", status_code |-> 0, msg |-> "division by zero", arg |-> <<>>]

ImageError == [type |-> "UnidentifiedImageError", status_code |-> 0, msg |-> "cannot identify image file", arg |-> <<>>]

\* the bytes of a file, by what the decoders make of them: the result of
\* ffmpeg.probe, the result of PIL's Image.open, and the size of the frame
\* ffmpeg decodes at second 1 (None when it decodes none)
Media(probe, image, frame) == [probe |-> probe, image |-> image, frame |-> frame]

Garbage == Media(Raise(FfmpegError), Raise(ImageError), None)

ImageInfo(w, h, format, mode) == [width |-> w, height |-> h, format |-> format, mode |-> mode]

GoodVideo ==
    Media(Return(Probe(<< AudioStream(Num(44100), Num(2), "aac"),
                          VideoStream(Num(1920), Num(1080), Ratio(30, 1), "h264") >>,
                       Num(10))),
          Raise(ImageError), <<1920, 1080>>)

GoodAudio ==
    Media(Return(Probe(<< AudioStream(Num(44100), Num(2), "mp3") >>, Num(3))),
          Raise(ImageError), None)

GoodImage ==
    Media(Raise(FfmpegError), Return(ImageInfo(640, 360, "PNG", "RGB")), None)

\* a PNG with an alpha channel: PIL cannot write it as JPEG
AlphaImage ==
    Media(Raise(FfmpegError), Return(ImageInfo(640, 360, "PNG", "RGBA")), None)

(* ------------------------------------------------------------------ *)
(* storage.py: metadata extraction                                     *)
(* ------------------------------------------------------------------ *)

\* int(d.get(key, 0)) and float(d.get(key, 0)) on a probe field
py_number(field) ==
    IF field.k = "absent" THEN Return(0)
    ELSE IF field.k = "num" THEN Return(field.v)
    ELSE Raise(ValueError)

\* eval(d.get('r_frame_rate', '30/1')): the value of the expression, as the
\* rational <<numerator, denominator>>
py_eval(rate) ==
    IF rate.k = "absent" THEN Return(<<30, 1>>)
    ELSE IF rate.k = "ratio"
         THEN IF rate.d = 0 THEN Raise(ZeroDivisionError) ELSE Return(<<rate.n, rate.d>>)
    ELSE IF rate.k = "sum" THEN Return(<<rate.n + rate.d, 1>>)
    ELSE Raise(NameError)

\* video_stream.get('codec_name', 'unknown')
codec_or_unknown(codec) == IF codec = "" THEN "unknown" ELSE codec

\* next((stream for stream in probe['streams'] if stream['codec_type'] == t), None)
first_stream(streams, t) ==
    LET idx == {i \in 1..Len(streams) : streams[i].codec_type = t}
    IN  IF idx = {} THEN None
        ELSE streams[CHOOSE i \in idx : \A j \in idx : i <= j]

\* extract_video_metadata, given what ffmpeg.probe(file_path) did
extract_video_metadata(probe) ==
    IF probe.raised THEN EmptyDict
    ELSE LET video_stream == first_stream(probe.val.streams, "video")
         IN  IF video_stream = None THEN EmptyDict
             ELSE LET w == py_number(video_stream.width)
                      h == py_number(video_stream.height)
                      d == py_number(probe.val.format.duration)
                      f == py_eval(video_stream.r_frame_rate)
                  IN  IF w.raised \/ h.raised \/ d.raised \/ f.raised
                      THEN EmptyDict
                      ELSE [width |-> w.val, height |-> h.val, duration |-> d.val,
                            fps |-> f.val,
                            codec |-> codec_or_unknown(video_stream.codec_name)]

\* extract_audio_metadata answering a failed probe with default fields
\* instead of the empty dict
extract_audio_metadata_defaults(probe) ==
    IF probe.raised
    THEN [duration |-> 0, codec |-> "unknown", sample_rate |-> 0, channels |-> 0]
    ELSE EmptyDict

\* extract_audio_metadata, given what ffmpeg.probe(file_path) did
extract_audio_metadata(probe) ==
    IF probe.raised THEN EmptyDict
    ELSE LET audio_stream == first_stream(probe.val.streams, "audio")
         IN  IF audio_stream = None THEN EmptyDict
             ELSE LET d == py_number(probe.val.format.duration)
                      r == py_number(audio_stream.sample_rate)
                      c == py_number(audio_stream.channels)
                  IN  IF d.raised \/ r.raised \/ c.raised
                      THEN EmptyDict
                      ELSE [duration |-> d.val,
                            codec |-> codec_or_unknown(audio_stream.codec_name),
                            sample_rate |-> r.val, channels |-> c.val]

\* extract_image_metadata, given what Image.open(file_path) did
extract_image_metadata(opened) ==
    IF opened.raised THEN EmptyDict
    ELSE [width |-> opened.val.width, height |-> opened.val.height,
          format |-> opened.val.format]

\* metadata.get('duration')
get_duration(metadata) ==
    IF "duration" \in DOMAIN metadata THEN <<metadata.duration>> ELSE None

(* ------------------------------------------------------------------ *)
(* storage.py: thumbnail sizes                                         *)
(* ------------------------------------------------------------------ *)

Abs(n) == IF n < 0 THEN -n ELSE n

Max2(a, b) == IF a >= b THEN a ELSE b

THUMB_W == 320

THUMB_H == 240

\* ffmpeg's output option s='320x240': the frame is scaled to exactly that size
ffmpeg_output_size(w, h) == <<THUMB_W, THUMB_H>>

\* PIL's Image.thumbnail((320, 240)): the image is left alone when it already
\* fits, else the side that overflows most is set to the box's and the other
\* is the nearer of floor and ceil of the exact value, at least 1
pil_thumbnail_size(w, h) ==
    IF THUMB_W >= w /\ THUMB_H >= h THEN <<w, h>>
    ELSE IF THUMB_W * h >= THUMB_H * w
    THEN LET lo == (THUMB_H * w) \div h
             hi == IF (THUMB_H * w) % h = 0 THEN lo ELSE lo + 1
             x  == IF Abs(THUMB_H * w - lo * h) <= Abs(THUMB_H * w - hi * h) THEN lo ELSE hi
         IN  <<Max2(x, 1), THUMB_H>>
    ELSE LET lo == (THUMB_W * h) \div w
             hi == IF (THUMB_W * h) % w = 0 THEN lo ELSE lo + 1
             y  == IF lo = 0 \/ Abs(w * lo - THUMB_W * h) * hi <= Abs(w * hi - THUMB_W * h) * lo
                   THEN lo ELSE hi
         IN  <<THUMB_W, Max2(y, 1)>>

\* img.save(thumbnail_path, "JPEG"): the JPEG writer takes these modes only
jpeg_writable(mode) == mode \in {"RGB", "L", "CMYK", "1"}

\* the JPEG file a thumbnail step writes
JpegMedia(size) ==
    Media(Raise(FfmpegError), Return(ImageInfo(size[1], size[2], "JPEG", "RGB")), None)

(* ------------------------------------------------------------------ *)
(* State                                                               *)
(* ------------------------------------------------------------------ *)

VARIABLES
    UPLOAD_DIR,      \* storage.py: the upload root, read from the environment at import
    THUMBNAIL_DIR,   \* storage.py: the thumbnail root
    fs,              \* the file system: resolved path -> [writer, bytes, media]
    issued,          \* the values uuid.uuid4() has returned
    db,              \* the media_files table: a set of MediaFile rows
    pc,              \* per request: where its handler stands
    req,             \* per request: the UploadFile (filename, size, bytes)
    file_path,       \* per request: upload_file_to_storage's file_path
    file_type,       \* per request: upload_file_to_storage's file_type
    metadata,        \* per request: upload_file_to_storage's metadata
    thumbnail_path,  \* per request: generate_thumbnail's result
    raised,          \* per request: the exception raised inside the handler's try
    resp,            \* per request: what the caller received
    fnIn,            \* input of a function under test
    fnOut            \* its result

config == <<UPLOAD_DIR, THUMBNAIL_DIR>>

locals == <<file_path, file_type, metadata, thumbnail_path>>

pureVars == <<fnIn, fnOut>>

vars == <<UPLOAD_DIR, THUMBNAIL_DIR, fs, issued, db, pc, req, file_path, file_type,
          metadata, thumbnail_path, raised, resp, fnIn, fnOut>>

Calls == 1..NumCalls

\* uuid.uuid4() is called up to three times per upload (file, thumbnail, row id)
TokenPool == 1..(3 * NumCalls)

\* uuid.uuid4(): a 122-bit random value, taken never to repeat. Which fresh
\* value it returns is immaterial (nothing reads a token but to compare it
\* with another), so the model hands out the fresh values in order
uuid4_values ==
    {t \in TokenPool \ issued : \A u \in TokenPool \ issued : t <= u}

Filenames ==
    { <<"a",".","M","P","4">>,
      <<".",".","/","x",".","m","p","3">>,
      <<"p",".","p","n","g">>,
      <<"n",".","t","x","t">> }

Sizes == {0, MaxBytes, MAX_FILE_SIZE + 1}

\* the bytes a client sends under a name: garbage, or media of the name's kind
PlausibleMedia(filename) ==
    LET ext == Lower(splitext_ext(filename))
    IN  {Garbage}
        \cup (IF ext \in SUPPORTED_VIDEO_TYPES THEN {GoodVideo} ELSE {})
        \cup (IF ext \in SUPPORTED_AUDIO_TYPES THEN {GoodAudio} ELSE {})
        \cup (IF ext \in SUPPORTED_IMAGE_TYPES THEN {GoodImage, AlphaImage} ELSE {})

\* the UploadFile objects of the model: an empty file decodes to nothing
Requests ==
    { f \in [filename : Filenames, size : Sizes,
             media : {Garbage, GoodVideo, GoodAudio, GoodImage, AlphaImage}] :
        /\ f.media \in PlausibleMedia(f.filename)
        /\ f.size \in {0, MAX_FILE_SIZE + 1} => f.media = Garbage }

NoRequest == [filename |-> <<>>, size |-> 0, media |-> Garbage]

\* a file on disk
File(c, n, media) == [writer |-> c, bytes |-> n, media |-> media]

\* f with key k set to v
Put(f, k, v) == [x \in DOMAIN f \cup {k} |-> IF x = k THEN v ELSE f[x]]

(* ------------------------------------------------------------------ *)
(* routes/media.py: the rows and the responses                         *)
(* ------------------------------------------------------------------ *)

\* MediaFile(...) of upload_media_file, with the id the column default draws
MediaFile(id, path, file, type, meta, thumb) ==
    [id |-> id,
     filename |-> basename(path),
     original_filename |-> file.filename,
     file_type |-> type,
     file_size |-> file.size,
     duration |-> get_duration(meta),
     file_url |-> path,
     thumbnail_url |-> thumb,
     metadata |-> meta,
     owner_id |-> "user"]

\* str(e)
Str(e) ==
    IF e.type = "HTTPException"
    THEN <<ToString(e.status_code), ": ", e.msg>> \o e.arg
    ELSE <<e.msg>>

\* UploadResponse(success=True, message="File uploaded successfully", file=db_media)
UploadResponse(row) ==
    [status_code |-> 200, detail |-> <<"File uploaded successfully">>, file |-> row]

\* except Exception as e: raise HTTPException(status_code=500, detail=f"Upload failed: {str(e)}")
upload_failed(e) ==
    [status_code |-> 500, detail |-> <<"Upload failed: ">> \o Str(e), file |-> None]

Init ==
    /\ \E cfg \in Configurations :
          /\ UPLOAD_DIR = cfg.UPLOAD_DIR
          /\ THUMBNAIL_DIR = cfg.THUMBNAIL_DIR
    /\ fs = <<>>
    /\ issued = {}
    /\ db = {}
    /\ pc = [c \in Calls |-> "idle"]
    /\ req = [c \in Calls |-> NoRequest]
    /\ file_path = [c \in Calls |-> None]
    /\ file_type = [c \in Calls |-> ""]
    /\ metadata = [c \in Calls |-> EmptyDict]
    /\ thumbnail_path = [c \in Calls |-> None]
    /\ raised = [c \in Calls |-> None]
    /\ resp = [c \in Calls |-> None]
    /\ fnIn = None
    /\ fnOut = None

\* the handler of request c ends in its except clause with exception e; its
\* locals are gone
Fail(c, e) ==
    /\ raised' = [raised EXCEPT ![c] = e]
    /\ resp' = [resp EXCEPT ![c] = upload_failed(e)]
    /\ pc' = [pc EXCEPT ![c] = "done"]
    /\ file_path' = [file_path EXCEPT ![c] = None]
    /\ file_type' = [file_type EXCEPT ![c] = ""]
    /\ metadata' = [metadata EXCEPT ![c] = EmptyDict]
    /\ thumbnail_path' = [thumbnail_path EXCEPT ![c] = None]

(* ------------------------------------------------------------------ *)
(* upload_media_file -> upload_file_to_storage                         *)
(* ------------------------------------------------------------------ *)

\* storage.py 55-60: validate_file, then the unique file name
ReceiveUpload(c) ==
    /\ pc[c] = "idle"
    /\ \E file \in Requests :
          /\ req' = [req EXCEPT ![c] = file]
          /\ LET v == validate_file(file)
             IN  IF v.raised
                 THEN /\ Fail(c, v.exc)
                      /\ UNCHANGED issued
                 ELSE \E t \in uuid4_values :
                        /\ issued' = issued \cup {t}
                        /\ file_path' = [file_path EXCEPT ![c] =
                              original_path(UPLOAD_DIR, t, Lower(splitext_ext(file.filename)))]
                        /\ pc' = [pc EXCEPT ![c] = "open"]
                        /\ UNCHANGED <<file_type, metadata, thumbnail_path, raised, resp>>
    /\ UNCHANGED <<config, fs, db, pureVars>>

\* storage.py 63: open(file_path, "wb") creates or truncates the file, or fails
OpenFile(c) ==
    /\ pc[c] = "open"
    /\ \/ /\ fs' = Put(fs, Resolve(file_path[c]), File(c, 0, Garbage))
          /\ pc' = [pc EXCEPT ![c] = "copy"]
          /\ UNCHANGED <<locals, raised, resp>>
       \/ /\ Fail(c, OSError("Permission denied"))
          /\ UNCHANGED fs
    /\ UNCHANGED <<config, issued, db, req, pureVars>>

\* storage.py 64-66: shutil.copyfileobj writes every byte, or a write fails
\* after n bytes and the with block closes the file on the way out
CopyFile(c) ==
    /\ pc[c] = "copy"
    /\ \/ /\ fs' = Put(fs, Resolve(file_path[c]), File(c, req[c].size, req[c].media))
          /\ file_type' = [file_type EXCEPT ![c] = get_file_type(req[c].filename).val]
          /\ pc' = [pc EXCEPT ![c] = "extract"]
          /\ UNCHANGED <<file_path, metadata, thumbnail_path, raised, resp>>
       \/ \E n \in 0..(req[c].size - 1) :
             /\ fs' = Put(fs, Resolve(file_path[c]), File(c, n, Garbage))
             /\ Fail(c, OSError("No space left on device"))
    /\ UNCHANGED <<config, issued, db, req, pureVars>>

\* what a decoder reads at path p
stored(p) == fs[Resolve(p)].media

\* storage.py 69-77: the extractor of the file's type runs on the stored file;
\* the probe, or the decoder, may also fail for reasons of its own
ExtractMetadata(c) ==
    /\ pc[c] = "extract"
    /\ \E works \in BOOLEAN :
          LET probe  == IF works THEN stored(file_path[c]).probe ELSE Raise(FfmpegError)
              opened == IF works THEN stored(file_path[c]).image ELSE Raise(ImageError)
          IN  metadata' = [metadata EXCEPT ![c] =
                  IF file_type[c] = "video" THEN extract_video_metadata(probe)
                  ELSE IF file_type[c] = "audio" THEN extract_audio_metadata(probe)
                  ELSE extract_image_metadata(opened)]
    /\ pc' = [pc EXCEPT ![c] = "thumbnail"]
    /\ UNCHANGED <<config, fs, issued, db, req, file_path, file_type, thumbnail_path,
                   raised, resp, pureVars>>

\* storage.py 82, 101: ffmpeg.probe(file_path) is called with no timeout; a
\* probe process that never exits leaves the handler waiting for it
ProbeHangs(c) ==
    /\ pc[c] = "extract"
    /\ file_type[c] \in {"video", "audio"}
    /\ pc' = [pc EXCEPT ![c] = "hung"]
    /\ UNCHANGED <<config, fs, issued, db, req, locals, raised, resp, pureVars>>

\* generate_thumbnail (storage.py 130-157): a fresh name under the thumbnail
\* root, then by type; every failure is caught and None returned
GenerateThumbnail(c) ==
    /\ pc[c] = "thumbnail"
    /\ \E t \in uuid4_values, works \in BOOLEAN :
          LET path   == thumbnail_file_path(THUMBNAIL_DIR, t)
              source == stored(file_path[c])
              frame  == source.frame
              img    == source.image
          IN  /\ issued' = issued \cup {t}
              /\ IF file_type[c] = "video" /\ works /\ frame # None
                 THEN /\ fs' = Put(fs, Resolve(path),
                                   File(c, 1, JpegMedia(ffmpeg_output_size(frame[1], frame[2]))))
                      /\ thumbnail_path' = [thumbnail_path EXCEPT ![c] = path]
                 ELSE IF file_type[c] = "image" /\ works /\ ~img.raised
                         /\ jpeg_writable(img.val.mode)
                 THEN /\ fs' = Put(fs, Resolve(path),
                                   File(c, 1, JpegMedia(pil_thumbnail_size(img.val.width,
                                                                           img.val.height))))
                      /\ thumbnail_path' = [thumbnail_path EXCEPT ![c] = path]
                 ELSE /\ fs' = fs
                      /\ thumbnail_path' = [thumbnail_path EXCEPT ![c] = None]
    /\ pc' = [pc EXCEPT ![c] = "commit"]
    /\ UNCHANGED <<config, db, req, file_path, file_type, metadata, raised, resp, pureVars>>

\* routes/media.py 29-49: the row is added and committed, or the commit fails
CommitRecord(c) ==
    /\ pc[c] = "commit"
    /\ \/ \E id \in uuid4_values :
             LET row == MediaFile(id, file_path[c], req[c], file_type[c], metadata[c],
                                  thumbnail_path[c])
             IN  /\ issued' = issued \cup {id}
                 /\ db' = db \cup {row}
                 /\ resp' = [resp EXCEPT ![c] = UploadResponse(row)]
                 /\ pc' = [pc EXCEPT ![c] = "done"]
                 /\ file_path' = [file_path EXCEPT ![c] = None]
                 /\ file_type' = [file_type EXCEPT ![c] = ""]
                 /\ metadata' = [metadata EXCEPT ![c] = EmptyDict]
                 /\ thumbnail_path' = [thumbnail_path EXCEPT ![c] = None]
                 /\ UNCHANGED raised
       \/ /\ Fail(c, SQLAlchemyError("commit failed"))
          /\ UNCHANGED <<issued, db>>
    /\ UNCHANGED <<config, fs, req, pureVars>>

Step(c) ==
    \/ ReceiveUpload(c)
    \/ OpenFile(c)
    \/ CopyFile(c)
    \/ ExtractMetadata(c)
    \/ ProbeHangs(c)
    \/ GenerateThumbnail(c)
    \/ CommitRecord(c)

Next == \E c \in Calls : Step(c)

Spec == Init /\ [][Next]_vars

(* ------------------------------------------------------------------ *)
(* routes/media.py: delete_media_file, and the two routes together     *)
(* ------------------------------------------------------------------ *)

\* os.remove: f without key k
Remove(f, k) == [x \in DOMAIN f \ {k} |-> f[x]]

\* os.path.exists(path)
exists(path) == Resolve(path) \in DOMAIN fs

\* delete_media_file (routes/media.py 80-111). A request for an id that is
\* not in the table ends with 404 and changes nothing, which is the guard.
\* The files are removed inside one try block: the first os.remove that
\* raises skips the rest and the error is only printed. Then the row is
\* deleted and committed, or the commit raises and the row stays.
DeleteMediaFile(media_id) ==
    /\ \E row \in db :
          /\ row.id = media_id
          /\ \E removed \in SUBSET {"file", "thumbnail"} :
                LET hasFile   == exists(row.file_url)
                    hasThumb  == row.thumbnail_url # None /\ exists(row.thumbnail_url)
                    afterFile == IF "file" \in removed
                                 THEN Remove(fs, Resolve(row.file_url)) ELSE fs
                IN  \* os.remove(file_url) runs when the file exists, and removes
                    \* it or raises; the thumbnail is reached only after it
                    /\ "file" \in removed => hasFile
                    /\ "thumbnail" \in removed =>
                          hasThumb /\ (hasFile => "file" \in removed)
                    /\ fs' = IF "thumbnail" \in removed
                             THEN Remove(afterFile, Resolve(row.thumbnail_url))
                             ELSE afterFile
          /\ \/ db' = db \ {row}
             \/ db' = db
    /\ UNCHANGED <<config, issued, pc, req, locals, raised, resp, pureVars>>

NextLifecycle ==
    \/ \E c \in Calls : Step(c)
    \/ \E media_id \in TokenPool : DeleteMediaFile(media_id)

SpecLifecycle == Init /\ [][NextLifecycle]_vars

(* ------------------------------------------------------------------ *)
(* Properties of the upload pipeline                                   *)
(* ------------------------------------------------------------------ *)

\* the resolved paths under a root directory
IsUnder(root, p) ==
    LET r == Resolve(root)
    IN  Len(p) > Len(r) /\ SubSeq(p, 1, Len(r)) = r

\* the files request c has created and that are on disk
FilesOf(c) == {p \in DOMAIN fs : fs[p].writer = c}

Returned(c) == pc[c] = "done"

Failed(c) == pc[c] = "done" /\ raised[c] # None

Succeeded(c) == pc[c] = "done" /\ raised[c] = None

\* the upload is one the validator must reject
Rejected(file) ==
    \/ file.size > MAX_FILE_SIZE
    \/ Lower(splitext_ext(file.filename)) \notin
          (SUPPORTED_VIDEO_TYPES \cup SUPPORTED_AUDIO_TYPES \cup SUPPORTED_IMAGE_TYPES)

\* C1: when the copy of the original fails after the file was opened, the
\* call ends with the write failure and no file it created is left under the
\* upload root.
C1_NoResidualFile ==
    \A c \in Calls :
        (Failed(c) /\ raised[c].type = "OSError")
            => \A p \in FilesOf(c) : ~IsUnder(UPLOAD_DIR, p)

\* C2: an upload whose size exceeds the ceiling or whose extension is in no
\* recognized set fails with the validator's error, and at no time is there a
\* file it created under either root.
C2_RejectedUploadWritesNothing ==
    \A c \in Calls :
        (pc[c] # "idle" /\ Rejected(req[c]))
            => /\ Failed(c)
               /\ raised[c].type = "HTTPException"
               /\ raised[c].status_code = 400
               /\ resp[c].file = None
               /\ FilesOf(c) = {}

\* C2 witness: a rejected upload has returned while another request has
\* written files.
C2_Witness ==
    \E c, d \in Calls :
        /\ Returned(c) /\ Rejected(req[c])
        /\ FilesOf(d) # {}

\* C3: an upload of undecodable bytes (the probe or decoder fails and so does
\* the thumbnail) is not aborted by those failures: past the thumbnail step
\* its metadata is empty and its thumbnail absent, a returned record says so,
\* and the only errors such a call ends with are the validator's, the
\* original's write failure and the database's.
C3_DecodeFailuresDoNotAbort ==
    \A c \in Calls :
        (pc[c] # "idle" /\ req[c].media = Garbage)
            => /\ pc[c] = "commit" => metadata[c] = EmptyDict /\ thumbnail_path[c] = None
               /\ Succeeded(c) =>
                     /\ resp[c].status_code = 200
                     /\ resp[c].file.metadata = EmptyDict
                     /\ resp[c].file.duration = None
                     /\ resp[c].file.thumbnail_url = None
                     /\ resp[c].file.file_size = req[c].size
               /\ Failed(c) =>
                     raised[c].type \in {"HTTPException", "OSError", "SQLAlchemyError"}

\* C3 witness: a 0-byte .mp3 and garbage bytes named .MP4 have both come
\* back as records.
C3_Witness ==
    \E c, d \in Calls :
        /\ Succeeded(c) /\ req[c].size = 0 /\ resp[c].file.file_type = "audio"
        /\ Succeeded(d) /\ req[d].size > 0 /\ req[d].media = Garbage
        /\ resp[d].file.file_type = "video"

\* the status the caller sees for an exception left to propagate: an
\* HTTPException's own, 500 for any other
StatusOf(e) == IF e.type = "HTTPException" THEN e.status_code ELSE 500

\* C4: a failed upload reports to the caller the failure that aborted it: the
\* validator's rejections arrive as raised (status 400), not as the status of
\* a storage-write or other internal failure.
C4_CallerReceivesCause ==
    \A c \in Calls :
        Failed(c) => resp[c].status_code = StatusOf(raised[c])

\* C5: every started ingestion eventually returns a record or a failure:
\* at no time is a started, unreturned ingestion left with no step to take.
C5_StartedIngestionReturns ==
    \A c \in Calls :
        pc[c] # "idle" => (Returned(c) \/ ENABLED Step(c))

\* the size of the picture a thumbnail was made from: the decoded frame of a
\* video, the decoded image
SourceSize(media) ==
    IF media.frame # None THEN media.frame
    ELSE <<media.image.val.width, media.image.val.height>>

\* tw x th has the aspect ratio of w x h, to within one pixel on a side
SameAspect(w, h, tw, th) == Abs(tw * h - th * w) <= Max2(w, h)

\* C8: every thumbnail on disk, of a video as of an image, fits within
\* 320 x 240 and has its source's aspect ratio to within rounding.
C8_ThumbnailFitsAndKeepsAspect ==
    \A row \in db :
        (/\ row.thumbnail_url # None
         /\ Resolve(row.thumbnail_url) \in DOMAIN fs
         /\ Resolve(row.file_url) \in DOMAIN fs)
            => LET thumb == stored(row.thumbnail_url).image.val
                   src   == SourceSize(stored(row.file_url))
               IN  /\ thumb.width <= THUMB_W
                   /\ thumb.height <= THUMB_H
                   /\ SameAspect(src[1], src[2], thumb.width, thumb.height)

\* C9: every recorded path is absolute, under its configured root, named by a
\* token and a recognized extension (".jpg" for a thumbnail), and the
\* transcription route opens, for a recorded file_url, the file the upload
\* wrote.
C9_RecordedPathsResolve ==
    \A row \in db :
        /\ row.file_url.abs
        /\ IsUnder(UPLOAD_DIR, Resolve(row.file_url))
        /\ \E t \in TokenPool, ext \in SUPPORTED_VIDEO_TYPES \cup SUPPORTED_AUDIO_TYPES
                                       \cup SUPPORTED_IMAGE_TYPES :
              row.file_url = original_path(UPLOAD_DIR, t, ext)
        /\ row.thumbnail_url # None =>
              /\ row.thumbnail_url.abs
              /\ \E t \in TokenPool :
                    row.thumbnail_url = thumbnail_file_path(THUMBNAIL_DIR, t)
        /\ Resolve(transcription_path(row.file_url)) = Resolve(row.file_url)

\* the metadata request c's file yields when it is the only request
MetadataAlone(file) ==
    LET type == get_file_type(file.filename).val
    IN  IF type = "video" THEN extract_video_metadata(file.media.probe)
        ELSE IF type = "audio" THEN extract_audio_metadata(file.media.probe)
        ELSE extract_image_metadata(file.media.image)

\* C10: concurrent uploads are independent: no request writes a path another
\* request writes, a request's original stays the bytes it copied while the
\* request runs, and a returned record names the original and the thumbnail
\* that request wrote and carries the metadata its own file yields.
C10_ConcurrentUploadsIndependent ==
    /\ \A c, d \in Calls :
          (c # d /\ file_path[c] # None /\ file_path[d] # None)
              => Resolve(file_path[c]) # Resolve(file_path[d])
    /\ \A c \in Calls :
          /\ pc[c] = "open" => Resolve(file_path[c]) \notin DOMAIN fs
          /\ pc[c] = "copy" => fs[Resolve(file_path[c])].writer = c
          /\ pc[c] \in {"extract", "thumbnail", "commit", "hung"} =>
                fs[Resolve(file_path[c])] = File(c, req[c].size, req[c].media)
          /\ (pc[c] = "commit" /\ thumbnail_path[c] # None) =>
                fs[Resolve(thumbnail_path[c])].writer = c
          /\ (Succeeded(c) /\ resp[c].file \in db) =>
                LET row == resp[c].file
                IN  /\ fs[Resolve(row.file_url)] = File(c, req[c].size, req[c].media)
                    /\ row.thumbnail_url # None =>
                          fs[Resolve(row.thumbnail_url)].writer = c
                    /\ row.metadata \in {EmptyDict, MetadataAlone(req[c])}
                    /\ row.original_filename = req[c].filename
    /\ \A r1, r2 \in db :
          r1 # r2 =>
             /\ r1.id # r2.id
             /\ Resolve(r1.file_url) # Resolve(r2.file_url)
             /\ (r1.thumbnail_url # None /\ r2.thumbnail_url # None)
                    => Resolve(r1.thumbnail_url) # Resolve(r2.thumbnail_url)

\* C10 witness: two uploads ran interleaved (the first to name its original
\* was the last to name its thumbnail) and both returned records with
\* thumbnails.
C10_Witness ==
    \E c, d \in Calls :
        /\ c # d /\ Succeeded(c) /\ Succeeded(d)
        /\ resp[c].file.thumbnail_url # None
        /\ resp[d].file.thumbnail_url # None
        /\ resp[c].file.file_url = original_path(UPLOAD_DIR, 1, <<".","m","p","4">>)
        /\ resp[d].file.thumbnail_url = thumbnail_file_path(THUMBNAIL_DIR, 3)
        /\ resp[c].file.thumbnail_url = thumbnail_file_path(THUMBNAIL_DIR, 4)

(* ------------------------------------------------------------------ *)
(* The extractors on their own, over the probe outputs                 *)
(* ------------------------------------------------------------------ *)

FieldValues == {Absent, Bad} \cup {Num(n) : n \in 0..MaxField}

RateValues ==
    {NoRate, NameExpr}
    \cup {Ratio(n, d) : n \in 0..MaxField, d \in 0..MaxField}
    \cup {SumExpr(n, d) : n \in 0..MaxField, d \in 0..MaxField}

\* "" stands for a stream with no codec_name
CodecNames == {"", "h264"}

VideoStreams ==
    {VideoStream(w, h, r, c) : w \in FieldValues, h \in FieldValues,
                               r \in RateValues, c \in CodecNames}

AudioStreams ==
    {AudioStream(r, ch, c) : r \in FieldValues, ch \in FieldValues, c \in CodecNames}

\* the stream lists: none, one stream, or a stream behind one of the other type
StreamLists ==
    { <<>> }
    \cup {<<st>> : st \in VideoStreams \cup AudioStreams}
    \cup {<<AudioStream(Num(1), Num(1), "aac"), st>> : st \in VideoStreams}
    \cup {<<VideoStream(Num(1), Num(1), Ratio(1, 1), "png"), st>> : st \in AudioStreams}

\* what ffmpeg.probe can do: raise, or return streams and a format
ProbeResults ==
    {Raise(FfmpegError)}
    \cup {Return(Probe(sl, d)) : sl \in StreamLists, d \in FieldValues}

InitExtract ==
    /\ Init!1
    /\ fs = <<>>
    /\ issued = {}
    /\ db = {}
    /\ pc = [c \in Calls |-> "idle"]
    /\ req = [c \in Calls |-> NoRequest]
    /\ file_path = [c \in Calls |-> None]
    /\ file_type = [c \in Calls |-> ""]
    /\ metadata = [c \in Calls |-> EmptyDict]
    /\ thumbnail_path = [c \in Calls |-> None]
    /\ raised = [c \in Calls |-> None]
    /\ resp = [c \in Calls |-> None]
    /\ fnIn \in [type : {"video", "audio"}, probe : ProbeResults]
    /\ fnOut = None

\* extract_video_metadata on the probe's result
ApplyExtractVideo ==
    /\ fnOut = None
    /\ fnIn.type = "video"
    /\ fnOut' = <<extract_video_metadata(fnIn.probe)>>
    /\ UNCHANGED <<config, fs, issued, db, pc, req, locals, raised, resp, fnIn>>

\* extract_audio_metadata on the probe's result
ApplyExtractAudio ==
    /\ fnOut = None
    /\ fnIn.type = "audio"
    /\ fnOut' = <<extract_audio_metadata(fnIn.probe)>>
    /\ UNCHANGED <<config, fs, issued, db, pc, req, locals, raised, resp, fnIn>>

NextExtract == ApplyExtractVideo \/ ApplyExtractAudio

SpecExtract == InitExtract /\ [][NextExtract]_vars

\* the probe succeeded and has a stream of the extractor's type
HasStream(in) ==
    /\ ~in.probe.raised
    /\ first_stream(in.probe.val.streams, in.type) # None

\* the r_frame_rate string is "<int>/<int>" with a non-zero denominator
ValidRatio(rate) == rate.k = "ratio" /\ rate.d # 0

\* key of dict out holds the number the field parses to, when it parses
KeepsParsed(out, key, field) == field.k = "num" => out[key] = field.v

\* C6: when the probe succeeds and a matching stream exists, a numeric field
\* that does not parse is treated as absent: the extractor still returns a
\* non-empty object holding every field that did parse, and a frame rate that
\* is not a valid ratio comes back as the default 30/1, never as the value of
\* some other expression.
C6_UnparsableFieldIsAbsent ==
    (fnOut # None /\ HasStream(fnIn)) =>
        LET out    == fnOut[1]
            stream == first_stream(fnIn.probe.val.streams, fnIn.type)
            format == fnIn.probe.val.format
        IN  /\ out # EmptyDict
            /\ KeepsParsed(out, "duration", format.duration)
            /\ fnIn.type = "video" =>
                  /\ KeepsParsed(out, "width", stream.width)
                  /\ KeepsParsed(out, "height", stream.height)
                  /\ IF ValidRatio(stream.r_frame_rate)
                     THEN out.fps = <<stream.r_frame_rate.n, stream.r_frame_rate.d>>
                     ELSE out.fps = <<30, 1>>
            /\ fnIn.type = "audio" =>
                  /\ KeepsParsed(out, "sample_rate", stream.sample_rate)
                  /\ KeepsParsed(out, "channels", stream.channels)

\* C7: a non-empty video metadata object has width > 0, height > 0,
\* duration >= 0 and frame rate > 0, and a non-empty audio metadata object has
\* duration >= 0, sample rate > 0 and channel count > 0.
C7_MetadataFieldsPositive ==
    fnOut # None =>
        LET out == fnOut[1]
        IN  \/ out = EmptyDict
            \/ /\ fnIn.type = "video"
               /\ out.width > 0 /\ out.height > 0 /\ out.duration >= 0
               /\ out.fps[1] * out.fps[2] > 0
            \/ /\ fnIn.type = "audio"
               /\ out.duration >= 0 /\ out.sample_rate > 0 /\ out.channels > 0

(* ------------------------------------------------------------------ *)
(* validate_file and get_file_type on their own, over names and sizes  *)
(* ------------------------------------------------------------------ *)

\* name stems: plain, caller-supplied directories, a dot inside the stem, and
\* a directory that itself ends in a recognized extension
TestStems ==
    { <<"a">>,
      <<".",".","/","x">>,
      <<"A",".","b">>,
      <<"d",".","m","p","4","/","n">> }

\* suffixes: every recognized extension, upper- and mixed-case spellings,
\* none at all, and unrecognized ones
TestSuffixes ==
    SUPPORTED_VIDEO_TYPES \cup SUPPORTED_AUDIO_TYPES \cup SUPPORTED_IMAGE_TYPES
    \cup { <<".","M","P","4">>, <<".","M","o","v">>, <<".","O","G","G">>,
           <<".","J","p","E","g">>, <<".","W","e","b","P">> }
    \cup { <<>>, <<".">>, <<".","t","x","t">>, <<".","e","x","e">>,
           <<".","m","p">>, <<".","m","p","4","x">>, <<".","m","p","4"," ">> }

\* names that are not a stem and a suffix: a dot file, the bare word, a name
\* of dots only
TestFilenames ==
    {stem \o suffix : stem \in TestStems, suffix \in TestSuffixes}
    \cup { <<".","m","p","4">>, <<"m","p","4">>, <<".",".",".","p","n","g">>,
           <<"d","/",".","w","a","v">> }

\* declared sizes around the ceiling
TestSizes ==
    {0, MaxBytes, MAX_FILE_SIZE - 1, MAX_FILE_SIZE, MAX_FILE_SIZE + 1,
     MAX_FILE_SIZE + MAX_FILE_SIZE}

InitValidate ==
    /\ Init!1
    /\ fs = <<>>
    /\ issued = {}
    /\ db = {}
    /\ pc = [c \in Calls |-> "idle"]
    /\ req = [c \in Calls |-> NoRequest]
    /\ file_path = [c \in Calls |-> None]
    /\ file_type = [c \in Calls |-> ""]
    /\ metadata = [c \in Calls |-> EmptyDict]
    /\ thumbnail_path = [c \in Calls |-> None]
    /\ raised = [c \in Calls |-> None]
    /\ resp = [c \in Calls |-> None]
    /\ fnIn \in [filename : TestFilenames, size : TestSizes]
    /\ fnOut = None

\* validate_file(file) on the UploadFile
ApplyValidateFile ==
    /\ fnOut = None
    /\ fnOut' = [fn |-> "validate_file", result |-> validate_file(fnIn)]
    /\ UNCHANGED <<config, fs, issued, db, pc, req, locals, raised, resp, fnIn>>

\* get_file_type(file.filename) on the UploadFile's name
ApplyGetFileType ==
    /\ fnOut = None
    /\ fnOut' = [fn |-> "get_file_type", result |-> get_file_type(fnIn.filename)]
    /\ UNCHANGED <<config, fs, issued, db, pc, req, locals, raised, resp, fnIn>>

NextValidate == ApplyValidateFile \/ ApplyGetFileType

SpecValidate == InitValidate /\ [][NextValidate]_vars

\* the end of name is extension e in some spelling of its letters, and what
\* stands before it in the last path component is not empty and not only dots
\* (a dot file has no extension)
HasExtension(name, e) ==
    LET n == Len(name) - Len(e)
    IN  /\ n >= 1
        /\ \A i \in 1..Len(e) : LowerChar(name[n + i]) = e[i]
        /\ \E i \in 1..n :
              /\ name[i] \notin {".", "/"}
              /\ \A j \in i..n : name[j] # "/"

\* the name has an extension of the set
ExtensionIn(name, set) == \E e \in set : HasExtension(name, e)

Recognized(name) ==
    \/ ExtensionIn(name, SUPPORTED_VIDEO_TYPES)
    \/ ExtensionIn(name, SUPPORTED_AUDIO_TYPES)
    \/ ExtensionIn(name, SUPPORTED_IMAGE_TYPES)

TooLarge(r) ==
    /\ r.raised
    /\ r.exc.type = "HTTPException" /\ r.exc.status_code = 400
    /\ r.exc.msg = "File too large. Maximum size is "

UnsupportedType(r) ==
    /\ r.raised
    /\ r.exc.type = "HTTPException" /\ r.exc.status_code = 400
    /\ r.exc.msg = "Unsupported file type: "

\* C11: validate_file decides on the declared size first: above the ceiling of
\* 104857600 bytes it fails with the too-large error whatever the extension;
\* at or below the ceiling it fails with the unsupported-type error exactly
\* when the extension is in no recognized set, and otherwise accepts.
C11_ValidateSizeFirst ==
    (fnOut # None /\ fnOut.fn = "validate_file") =>
        LET r == fnOut.result
        IN  IF fnIn.size > 104857600
            THEN TooLarge(r)
            ELSE IF Recognized(fnIn.filename)
                 THEN ~r.raised
                 ELSE UnsupportedType(r)

\* C11 witness: validate_file has run on an upload over the ceiling whose
\* extension is in no recognized set.
C11_Witness ==
    /\ fnOut # None /\ fnOut.fn = "validate_file"
    /\ fnIn.size = MAX_FILE_SIZE + 1
    /\ ~Recognized(fnIn.filename)
    /\ fnOut.result.raised

\* C12: get_file_type maps a name whose extension, in any spelling of its
\* letters, is in the video, audio or image set to that kind; the three sets
\* are disjoint; every other name, one with no extension included, fails with
\* the unsupported-type error and never gets a default kind.
C12_ClassifyByExtension ==
    /\ SUPPORTED_VIDEO_TYPES \cap SUPPORTED_AUDIO_TYPES = {}
    /\ SUPPORTED_VIDEO_TYPES \cap SUPPORTED_IMAGE_TYPES = {}
    /\ SUPPORTED_AUDIO_TYPES \cap SUPPORTED_IMAGE_TYPES = {}
    /\ (fnOut # None /\ fnOut.fn = "get_file_type") =>
          LET r    == fnOut.result
              name == fnIn.filename
          IN  /\ ExtensionIn(name, SUPPORTED_VIDEO_TYPES) => r = Return("video")
              /\ ExtensionIn(name, SUPPORTED_AUDIO_TYPES) => r = Return("audio")
              /\ ExtensionIn(name, SUPPORTED_IMAGE_TYPES) => r = Return("image")
              /\ ~Recognized(name) => UnsupportedType(r)

\* C12 witness: get_file_type has classified a name whose extension is
\* spelled in capitals and sits behind caller-supplied directories.
C12_Witness ==
    /\ fnOut # None /\ fnOut.fn = "get_file_type"
    /\ fnIn.filename = <<".",".","/","x",".","O","G","G">>
    /\ fnOut.result = Return("audio")

(* ------------------------------------------------------------------ *)
(* Properties of uploads and deletes together                          *)
(* ------------------------------------------------------------------ *)

\* no request is inside its handler
Quiescent == \A c \in Calls : pc[c] \in {"idle", "done"}

\* the rows whose file_url or thumbnail_url is the file at resolved path p
RecordsNaming(p) ==
    {row \in db :
        \/ Resolve(row.file_url) = p
        \/ row.thumbnail_url # None /\ Resolve(row.thumbnail_url) = p}

\* C13: no orphaned files: once the upload and delete requests made so far
\* have completed, whether they succeeded or ended in an error, every file
\* under the upload root or the thumbnail root is the file_url or the
\* thumbnail_url of exactly one existing MediaFile row.
C13_NoOrphanedFiles ==
    Quiescent =>
        \A p \in DOMAIN fs :
            (IsUnder(UPLOAD_DIR, p) \/ IsUnder(THUMBNAIL_DIR, p))
                => Cardinality(RecordsNaming(p)) = 1

====
